---- MODULE Spec2Model ----
(***************************************************************************)
(* A model of AzadiDNSTester.py: the prober test_single_server, the sink   *)
(* (write_header, real_time_save, file_lock) and the engine                *)
(* check_dns_servers with its ThreadPoolExecutor and as_completed loop.    *)
(*                                                                         *)
(* Three specifications share the actions:                                 *)
(*   Spec       the whole run of check_dns_servers;                        *)
(*   ProbeSpec  one direct call of test_single_server on every kind of     *)
(*              address string and every resolver behaviour;               *)
(*   RankSpec   the ranking at the end of a run over more addresses than   *)
(*              the list of the fastest holds.                             *)
(* FairSpec is Spec with the fairness the thread scheduler gives.          *)
(***************************************************************************)
EXTENDS Integers, Sequences, FiniteSets, TLC

(* ------------------------------ bounds -------------------------------- *)
MaxServers == 2
MaxWorkers == 2
MaxAnswers == 2
MaxLatency == 2
MaxRanked == 7

(* --------------------------- plain helpers ----------------------------- *)
Range(s) == {s[i] : i \in 1..Len(s)}

SeqsUpTo(S, n) == UNION {[1..k -> S] : k \in 1..n}

NoDupSeqs(S, n) == {s \in UNION {[1..k -> S] : k \in 0..n} :
                      \A i, j \in 1..Len(s) : i # j => s[i] # s[j]}

(* ------------------------ addresses and answers ------------------------ *)
\* line 197: the sentinel set of test_single_server
firewall_ips == {"10.10.34.34", "10.10.34.35", "10.10.34.36"}

\* an address a resolver can return that is no sentinel
GenuineIPs == {"93.184.216.34"}

AnswerIPs == firewall_ips \cup GenuineIPs

\* Strings the pattern of load_servers (lines 51-54) extracts: each octet
\* matches 25[0-5]|2[0-4][0-9]|[01]?[0-9][0-9]?, so leading zeros pass.
ExtractedAddrs == {"1.1.1.1", "010.1.1.1", "009.1.1.1"}

\* Strings a direct caller of test_single_server can pass.
ProbeAddrs ==
  ExtractedAddrs \cup {"8.8.8.8", "127.1", "999.999.999.999", "1.1.1.1<NUL>"}

\* line 183: socket.inet_aton(server).  It raises OSError (socket.error) on
\* a string that is no address ("009" is no octal number), ValueError on
\* a string with an embedded NUL, and accepts the rest ("010" is octal 8,
\* "127.1" is 127.0.0.1).
InetAton(server) ==
  CASE server \in {"009.1.1.1", "999.999.999.999"} -> "OSError"
    [] server = "1.1.1.1<NUL>" -> "ValueError"
    [] OTHER -> "ok"

\* lines 188-191: Resolver(configure=False) and the three attribute
\* assignments.  The nameservers setter of dnspython validates its
\* elements with its own parser, which wants four octets without leading
\* zeros; whether it does depends on the installed version, so both
\* outcomes are possible for a string that parser refuses.
ResolverSetup(server) ==
  IF server \in {"010.1.1.1", "127.1"} THEN {"ok", "ValueError"} ELSE {"ok"}

(* ------------------------------ exceptions ----------------------------- *)
\* The classes an exception is an instance of.
Ancestors(exc) ==
  CASE exc = "NXDOMAIN" -> {"NXDOMAIN", "DNSException", "Exception"}
    [] exc = "Timeout" -> {"Timeout", "DNSException", "Exception"}
    [] exc = "NoAnswer" -> {"NoAnswer", "DNSException", "Exception"}
    [] exc = "NoNameservers" -> {"NoNameservers", "DNSException", "Exception"}
    [] exc = "OSError" -> {"OSError", "Exception"}
    [] exc = "ValueError" -> {"ValueError", "Exception"}
    [] exc = "UnboundLocalError" -> {"UnboundLocalError", "NameError", "Exception"}
    [] OTHER -> {exc}

\* Faulty variant of ExceptClauses: the clause of the base class comes
\* first and shadows the three below it.
ExceptClausesBaseFirst ==
  << [cls |-> "DNSException", msg |-> "dns error"],
     [cls |-> "NXDOMAIN", msg |-> "nxdomain"],
     [cls |-> "Timeout", msg |-> "timeout"],
     [cls |-> "NoAnswer", msg |-> "no answer"],
     [cls |-> "Exception", msg |-> "error"] >>

\* lines 217-231: the except clauses of test_single_server, in order.
ExceptClauses ==
  << [cls |-> "NXDOMAIN", msg |-> "nxdomain"],
     [cls |-> "Timeout", msg |-> "timeout"],
     [cls |-> "NoAnswer", msg |-> "no answer"],
     [cls |-> "DNSException", msg |-> "dns error"],
     [cls |-> "Exception", msg |-> "error"] >>

\* The message of the first clause that catches exc ("" when none does).
HandlerMsg(exc) ==
  LET hits == {i \in 1..Len(ExceptClauses) : ExceptClauses[i].cls \in Ancestors(exc)}
  IN IF hits = {} THEN ""
     ELSE ExceptClauses[CHOOSE i \in hits : \A j \in hits : i <= j].msg

\* What resolver.resolve (line 194) can do: answer, or raise.
RaisedByResolve == {"NXDOMAIN", "Timeout", "NoAnswer", "NoNameservers", "OSError"}

Answered(answers) == [exc |-> "none", answers |-> answers]
Raised(exc) == [exc |-> exc, answers |-> << >>]

\* Every resolver behaviour within the bounds (direct calls).
AllBehaviours ==
  {Answered(a) : a \in SeqsUpTo(AnswerIPs, MaxAnswers)}
    \cup {Raised(e) : e \in RaisedByResolve}

\* The resolver behaviours of a whole run: a sentinel answer, a genuine
\* answer, or no answer in time.
RunBehaviours ==
  {Answered(<< "10.10.34.34" >>), Answered(<< "93.184.216.34" >>), Raised("Timeout")}

\* Elapsed times, counted in half milliseconds so that the rounding of the
\* format specification .0f (lines 207, 213) has something to round.
Latencies == 1..MaxLatency

\* f"{response_time:.0f}": round to the nearest integer, ties to even.
Fmt0f(rt) ==
  LET q == rt \div 2
  IN IF rt % 2 = 0 THEN q ELSE IF q % 2 = 0 THEN q ELSE q + 1

(* --------------------------- test_single_server ------------------------ *)
\* the value None of the result pair on line 185
NoneRT == 0 - 1
Unbound == "<unbound>"
NoInfo == [server |-> "", fw |-> FALSE, tag |-> "", ms |-> NoneRT]
NoResult == [success |-> FALSE, server |-> "", rt |-> NoneRT, msg |-> "", detail |-> ""]

Result(success, server, rt, msg, detail) ==
  [success |-> success, server |-> server, rt |-> rt, msg |-> msg, detail |-> detail]

\* Faulty variant of FirewallFound: only the first answer is looked at.
FirewallFoundFirst(returned_ips) == returned_ips[1] \in firewall_ips

\* line 199: any(ip in firewall_ips for ip in returned_ips)
FirewallFound(returned_ips) == \E i \in 1..Len(returned_ips) : returned_ips[i] \in firewall_ips

\* line 204: next(ip for ip in returned_ips if ip in firewall_ips); the
\* name first_fw is bound only on the branch of line 203.
FirstFw(returned_ips) ==
  IF FirewallFound(returned_ips)
  THEN returned_ips[CHOOSE i \in 1..Len(returned_ips) :
                      /\ returned_ips[i] \in firewall_ips
                      /\ \A j \in 1..(i - 1) : returned_ips[j] \notin firewall_ips]
  ELSE Unbound

\* line 213: the name the record of a plain success is built from.
SuccessTag(first_ip, first_fw) == first_fw

\* Faulty variant of FirewallBranch: the mode is ignored and the
\* sentinel answer is always accepted.
FirewallBranchAlwaysAccepts(server, first_fw, rt, include) ==
  [raise |-> "none",
   info |-> [server |-> server, fw |-> TRUE, tag |-> first_fw, ms |-> Fmt0f(rt)],
   result |-> Result(TRUE, server, rt, "firewall blocked", first_fw)]

\* Faulty variant of FirewallBranch: the line is saved before the mode is
\* looked at, so a filtered outcome leaves a record.
FirewallBranchSavesFiltered(server, first_fw, rt, include) ==
  [raise |-> "none",
   info |-> [server |-> server, fw |-> TRUE, tag |-> first_fw, ms |-> Fmt0f(rt)],
   result |-> Result(include, server, rt, "firewall blocked", first_fw)]

\* Faulty variant of FirewallBranch: an accepted outcome is returned
\* without the call of real_time_save.
FirewallBranchForgetsSave(server, first_fw, rt, include) ==
  [raise |-> "none", info |-> NoInfo,
   result |-> Result(include, server, rt, "firewall blocked", first_fw)]

\* lines 203-211: the branch taken when a sentinel was returned.  raise
\* is the exception raised ("none" when none is), info the line handed to
\* real_time_save (NoInfo when it is not called; fw says whether the tag
\* carries the prefix "firewall:"), result the triple returned.
FirewallBranch(server, first_fw, rt, include) ==
  IF include
  THEN [raise |-> "none",
        info |-> [server |-> server, fw |-> TRUE, tag |-> first_fw, ms |-> Fmt0f(rt)],
        result |-> Result(TRUE, server, rt, "firewall blocked", first_fw)]
  ELSE [raise |-> "none", info |-> NoInfo,
        result |-> Result(FALSE, server, rt, "firewall blocked", first_fw)]

\* lines 196-215, up to the call of real_time_save or the return: what
\* the body of the try does with an answer.
TryBody(server, answers, rt, include) ==
  LET first_ip == answers[1]
      first_fw == FirstFw(answers)
  IN IF FirewallFound(answers)
     THEN FirewallBranch(server, first_fw, rt, include)
     ELSE IF SuccessTag(first_ip, first_fw) = Unbound
          THEN [raise |-> "UnboundLocalError", info |-> NoInfo, result |-> NoResult]
          ELSE [raise |-> "none",
                info |-> [server |-> server, fw |-> FALSE,
                         tag |-> SuccessTag(first_ip, first_fw), ms |-> Fmt0f(rt)],
                result |-> Result(TRUE, server, rt, "ok", first_ip)]

\* lines 193-231: the try statement as a whole, for one resolver behaviour.
TryStatement(server, beh, rt, include) ==
  LET body == IF beh.exc = "none" THEN TryBody(server, beh.answers, rt, include)
              ELSE [raise |-> beh.exc, info |-> NoInfo, result |-> NoResult]
  IN IF body.raise = "none" THEN body
     ELSE IF HandlerMsg(body.raise) = "" THEN body
     ELSE [raise |-> "none", info |-> NoInfo,
           result |-> Result(FALSE, server, rt, HandlerMsg(body.raise), "")]

(* -------------------------------- state -------------------------------- *)
VARIABLES
  servers,           \* the list load_servers returned (line 238)
  workers,           \* get_worker_count() (line 243)
  include_firewall,  \* get_filter_option() (line 246)
  store,             \* the contents of working_dns.txt, a sequence of chunks
  file_lock,         \* the holder of file_lock: 0 free, MainThread, or a worker
  mainpc,            \* where the caller of the engine (or of the prober) is
  submitted,         \* how many servers the comprehension of line 260 has submitted
  queue,             \* the executor's work queue: indices into servers
  fut,               \* the futures, by index into servers
  completed,         \* the finished futures, in the order they finished
  taken,             \* how many of them as_completed has yielded
  working,           \* line 256
  failed,            \* line 257
  summary,           \* what lines 288-302 report
  tpc,               \* where each worker thread is
  ttask,             \* the index of the server a thread is probing (0: none)
  tanswers,          \* the answer the thread's query got
  tinfo,             \* the line the thread hands to real_time_save
  tresult,           \* the triple the thread is about to return
  texc,              \* the exception leaving test_single_server ("none")
  tqexc,             \* the exception the thread's query raised ("none")
  invoked,           \* how many times the prober was entered, per index
  saved,             \* the lines real_time_save was called with
  errors,            \* the error lines printed (lines 92 and 103)
  header_calls       \* how many times write_header was entered

vars == << servers, workers, include_firewall, store, file_lock, mainpc, submitted,
           queue, fut, completed, taken, working, failed, summary, tpc, ttask,
           tanswers, tinfo, tresult, texc, tqexc, invoked, saved, errors, header_calls >>

Threads == 1..MaxWorkers
MainThread == MaxWorkers + 1
Indices == 1..Len(servers)

\* Faulty variant of PoolSize: one thread too many.
PoolSizeOneMore(w) == w + 1

\* line 259: ThreadPoolExecutor(max_workers=workers) runs at most that
\* many threads, each one work item at a time.
PoolSize(w) == w

(* ------------------------------ the store ------------------------------ *)
\* A chunk is what one write to the file appends.  A line of text reaches
\* the file whole, or as a head (no newline yet) and a tail (the rest, with
\* the newline), when flushing the buffer takes two writes.
Chunk(kind, part, info) == [kind |-> kind, part |-> part, info |-> info]

\* lines 86-89: the four lines of the header; the third names the mode.
HeaderInfo(n, include) ==
  [server |-> "#", fw |-> include, tag |-> "", ms |-> n]
HeaderLines == 4
Header(include) ==
  [n \in 1..HeaderLines |-> Chunk("header", "full", HeaderInfo(n, include))]

\* What an earlier run left in working_dns.txt.
StaleLine == Chunk("stale", "full", NoInfo)

\* The text lines of the store: a line ends with a chunk that carries the
\* newline (a full chunk or a tail).
RECURSIVE SplitLines(_, _)
SplitLines(chunks, cur) ==
  IF chunks = << >> THEN (IF cur = << >> THEN << >> ELSE << cur >>)
  ELSE IF Head(chunks).part = "head"
       THEN SplitLines(Tail(chunks), Append(cur, Head(chunks)))
       ELSE << Append(cur, Head(chunks)) >> \o SplitLines(Tail(chunks), << >>)

Lines(chunks) == SplitLines(chunks, << >>)

\* A line of text that is exactly one record.
IsRecordLine(line, info) == line = << Chunk("record", "full", info) >>

\* Faulty variant of CanAcquire: the file is written without the lock.
CanAcquireAlways(who) == TRUE

\* line 98: "with file_lock" enters when no thread holds the lock.
CanAcquire(who) == file_lock = 0

(* ------------------------------- futures ------------------------------- *)
NoFuture == [state |-> "none", exc |-> "none", result |-> NoResult]
NoSummary == [tested |-> 0, working |-> 0, failed |-> 0, top |-> << >>]

(* ------------------------------- Init ---------------------------------- *)
IdleThreads ==
  /\ tpc = [t \in Threads |-> "idle"]
  /\ ttask = [t \in Threads |-> 0]
  /\ tanswers = [t \in Threads |-> << >>]
  /\ tinfo = [t \in Threads |-> NoInfo]
  /\ tresult = [t \in Threads |-> NoResult]
  /\ texc = [t \in Threads |-> "none"]
  /\ tqexc = [t \in Threads |-> "none"]

\* check_dns_servers after load_servers and the four prompts.
Init ==
  /\ servers \in NoDupSeqs(ExtractedAddrs, MaxServers)
  /\ workers \in 1..MaxWorkers
  /\ include_firewall \in BOOLEAN
  /\ store = << StaleLine >>
  /\ file_lock = 0
  /\ mainpc = "start"
  /\ submitted = 0
  /\ queue = << >>
  /\ fut = [i \in 1..Len(servers) |-> NoFuture]
  /\ completed = << >>
  /\ taken = 0
  /\ working = << >>
  /\ failed = << >>
  /\ summary = NoSummary
  /\ IdleThreads
  /\ invoked = [i \in 1..Len(servers) |-> 0]
  /\ saved = {}
  /\ errors = {}
  /\ header_calls = 0

(* ----------------------- the engine's own thread ----------------------- *)
threadv == << tpc, ttask, tanswers, tinfo, tresult, texc, tqexc >>
configv == << servers, workers, include_firewall >>
logv == << invoked, saved, errors, header_calls >>

\* lines 239-241: no servers, no run.
Reject ==
  /\ mainpc = "start"
  /\ servers = << >>
  /\ mainpc' = "rejected"
  /\ UNCHANGED << configv, store, file_lock, submitted, queue, fut, completed, taken,
                  working, failed, summary, threadv, logv >>

\* Faulty variant of HeaderEnter: the header is written before the list is
\* looked at.
HeaderEnterUnchecked ==
  /\ mainpc = "start"
  /\ CanAcquire(MainThread)
  /\ file_lock' = MainThread
  /\ header_calls' = header_calls + 1
  /\ mainpc' = "hdr_locked"
  /\ UNCHANGED << configv, store, submitted, queue, fut, completed, taken,
                  working, failed, summary, threadv, invoked, saved, errors >>

\* line 83 of write_header, called on line 248: with file_lock.
HeaderEnter ==
  /\ mainpc = "start"
  /\ servers # << >>
  /\ CanAcquire(MainThread)
  /\ file_lock' = MainThread
  /\ header_calls' = header_calls + 1
  /\ mainpc' = "hdr_locked"
  /\ UNCHANGED << configv, store, submitted, queue, fut, completed, taken,
                  working, failed, summary, threadv, invoked, saved, errors >>

\* Faulty variant of HeaderWritten: the file is opened with 'a'.
HeaderAppendedToOld(old, include) == old \o Header(include)

\* What lines 85-89 leave in the file: open(filepath, 'w') empties it, the
\* four writes fill the buffer, leaving the with block flushes it.
HeaderWritten(old, include) == Header(include)

\* lines 85-90: the header is written.
HeaderWrite ==
  /\ mainpc = "hdr_locked"
  /\ store' = HeaderWritten(store, include_firewall)
  /\ mainpc' = "hdr_exit"
  /\ UNCHANGED << configv, file_lock, submitted, queue, fut, completed, taken,
                  working, failed, summary, threadv, logv >>

\* lines 91-92: open raises, so the file is as it was; the error is
\* printed and swallowed.
HeaderFails ==
  /\ mainpc = "hdr_locked"
  /\ store' = store
  /\ errors' = errors \cup {[what |-> "header write error", server |-> ""]}
  /\ mainpc' = "hdr_exit"
  /\ UNCHANGED << configv, file_lock, submitted, queue, fut, completed, taken,
                  working, failed, summary, threadv, invoked, saved, header_calls >>

\* the end of the with block of line 83: the lock is released.
HeaderExit ==
  /\ mainpc = "hdr_exit"
  /\ file_lock' = 0
  /\ mainpc' = "submit"
  /\ UNCHANGED << configv, store, submitted, queue, fut, completed, taken,
                  working, failed, summary, threadv, logv >>

\* lines 260-263: executor.submit for the next server of the list.
Submit ==
  /\ mainpc = "submit"
  /\ submitted < Len(servers)
  /\ submitted' = submitted + 1
  /\ queue' = Append(queue, submitted + 1)
  /\ fut' = [fut EXCEPT ![submitted + 1].state = "pending"]
  /\ mainpc' = IF submitted + 1 = Len(servers) THEN "collect" ELSE "submit"
  /\ UNCHANGED << configv, store, file_lock, completed, taken, working, failed,
                  summary, threadv, logv >>

\* Faulty variant of Collected: the else branch forgets failed.append.
CollectedForgetsFailed(f, server, w, fl) ==
  IF f.exc = "none"
  THEN IF f.result.success
       THEN [working |-> Append(w, << f.result.server, f.result.rt >>), failed |-> fl,
             escapes |-> FALSE]
       ELSE [working |-> w, failed |-> fl, escapes |-> FALSE]
  ELSE [working |-> w, failed |-> Append(fl, server), escapes |-> FALSE]

\* Faulty variant of Collected: no try/except around future.result().
CollectedNoExcept(f, server, w, fl) ==
  IF f.exc = "none"
  THEN IF f.result.success
       THEN [working |-> Append(w, << f.result.server, f.result.rt >>), failed |-> fl,
             escapes |-> FALSE]
       ELSE [working |-> w, failed |-> Append(fl, f.result.server), escapes |-> FALSE]
  ELSE [working |-> w, failed |-> fl, escapes |-> TRUE]

\* lines 268-279: what the loop body does with one finished future.
\* future.result() returns the triple or raises what the task raised;
\* except Exception turns that into a failure of the future's server, and
\* anything else leaves the loop (escapes).
Collected(f, server, w, fl) ==
  IF f.exc = "none"
  THEN IF f.result.success
       THEN [working |-> Append(w, << f.result.server, f.result.rt >>), failed |-> fl,
             escapes |-> FALSE]
       ELSE [working |-> w, failed |-> Append(fl, f.result.server), escapes |-> FALSE]
  ELSE IF "Exception" \in Ancestors(f.exc)
       THEN [working |-> w, failed |-> Append(fl, server), escapes |-> FALSE]
       ELSE [working |-> w, failed |-> fl, escapes |-> TRUE]

\* lines 266-282: as_completed yields the next finished future.  An
\* exception that escapes leaves check_dns_servers (main prints it, 313-315).
Collect ==
  /\ mainpc = "collect"
  /\ taken < Len(completed)
  /\ LET i == completed[taken + 1]
         c == Collected(fut[i], servers[i], working, failed)
     IN /\ working' = c.working
        /\ failed' = c.failed
        /\ mainpc' = IF c.escapes THEN "crashed" ELSE mainpc
  /\ taken' = taken + 1
  /\ UNCHANGED << configv, store, file_lock, submitted, queue, fut, completed,
                  summary, threadv, logv >>

\* Faulty variant of InsertByRt: the slowest come first.
RECURSIVE InsertByRtDescending(_, _)
InsertByRtDescending(sorted, x) ==
  IF sorted = << >> THEN << x >>
  ELSE IF x[2] > Head(sorted)[2] THEN << x >> \o sorted
       ELSE << Head(sorted) >> \o InsertByRtDescending(Tail(sorted), x)

\* sorted(working, key=lambda x: x[1]) (line 298): a stable sort.
RECURSIVE InsertByRt(_, _)
InsertByRt(sorted, x) ==
  IF sorted = << >> THEN << x >>
  ELSE IF x[2] < Head(sorted)[2] THEN << x >> \o sorted
       ELSE << Head(sorted) >> \o InsertByRt(Tail(sorted), x)

RECURSIVE SortedByRt(_)
SortedByRt(w) ==
  IF w = << >> THEN << >>
  ELSE InsertByRt(SortedByRt(SubSeq(w, 1, Len(w) - 1)), w[Len(w)])

\* line 299: sorted_working[:5]
TopN == 5
Top(w) == SubSeq(SortedByRt(w), 1, IF Len(w) < TopN THEN Len(w) ELSE TopN)

\* the loop of line 266 ends when every future was yielded
AllCollected == taken = Len(servers)

\* lines 284-303: the with block of line 259 is left (every thread has
\* finished), the results are printed and working is returned.
Summarise ==
  /\ mainpc = "collect"
  /\ AllCollected
  /\ summary' = [tested |-> Len(servers), working |-> Len(working),
                 failed |-> Len(failed), top |-> Top(working)]
  /\ mainpc' = "done"
  /\ UNCHANGED << configv, store, file_lock, submitted, queue, fut, completed, taken,
                  working, failed, threadv, logv >>

(* --------------------------- the worker threads ------------------------ *)
enginev == << mainpc, submitted, taken, working, failed, summary, header_calls >>

\* the threads the executor runs
InPool(t) == t <= PoolSize(workers)

\* A pool thread takes the next work item and enters test_single_server.
\* The idle threads of a pool are interchangeable: the lowest one takes it.
TakeTask(t) ==
  /\ InPool(t)
  /\ tpc[t] = "idle"
  /\ \A u \in 1..(t - 1) : tpc[u] # "idle"
  /\ queue # << >>
  /\ ttask' = [ttask EXCEPT ![t] = Head(queue)]
  /\ queue' = Tail(queue)
  /\ fut' = [fut EXCEPT ![Head(queue)].state = "running"]
  /\ invoked' = [invoked EXCEPT ![Head(queue)] = @ + 1]
  /\ tpc' = [tpc EXCEPT ![t] = "start"]
  /\ UNCHANGED << configv, store, file_lock, enginev, completed, tanswers, tqexc, tinfo,
                  tresult, texc, saved, errors >>

\* lines 182-191: where the function is after its first ten lines.  The
\* except of line 184 catches socket.error only; nothing catches what
\* lines 187-191 raise.
AfterSetup(server, setup) ==
  CASE InetAton(server) = "OSError" ->
         [pc |-> "ret", exc |-> "none",
          result |-> Result(FALSE, server, NoneRT, "invalid ip", "")]
    [] InetAton(server) = "ValueError" ->
         [pc |-> "raise", exc |-> "ValueError", result |-> NoResult]
    [] OTHER ->
         IF setup = "ok" THEN [pc |-> "query", exc |-> "none", result |-> NoResult]
         ELSE [pc |-> "raise", exc |-> setup, result |-> NoResult]

\* lines 182-191: the address is validated and the resolver is set up.
Validate(t) ==
  /\ tpc[t] = "start"
  /\ \E setup \in ResolverSetup(servers[ttask[t]]) :
       LET a == AfterSetup(servers[ttask[t]], setup)
       IN /\ tpc' = [tpc EXCEPT ![t] = a.pc]
          /\ texc' = [texc EXCEPT ![t] = a.exc]
          /\ tresult' = [tresult EXCEPT ![t] = a.result]
  /\ UNCHANGED << configv, store, file_lock, enginev, queue, fut, completed, ttask,
                  tanswers, tqexc, tinfo, invoked, saved, errors >>

\* lines 193-231: the query answers or raises after rt half milliseconds,
\* and the try statement runs up to its return or its call of
\* real_time_save.
QueryReturn(t, behaviours) ==
  /\ tpc[t] = "query"
  /\ \E beh \in behaviours, rt \in Latencies :
       LET r == TryStatement(servers[ttask[t]], beh, rt, include_firewall)
       IN /\ tanswers' = [tanswers EXCEPT ![t] = beh.answers]
          /\ tqexc' = [tqexc EXCEPT ![t] = beh.exc]
          /\ tresult' = [tresult EXCEPT ![t] = r.result]
          /\ tinfo' = [tinfo EXCEPT ![t] = r.info]
          /\ texc' = [texc EXCEPT ![t] = r.raise]
          /\ tpc' = [tpc EXCEPT ![t] =
                       IF r.raise # "none" THEN "raise"
                       ELSE IF r.info # NoInfo THEN "save" ELSE "ret"]
  /\ UNCHANGED << configv, store, file_lock, enginev, queue, fut, completed, ttask,
                  invoked, saved, errors >>

\* line 98 of real_time_save (called on lines 208 and 214): with file_lock.
SaveEnter(t) ==
  /\ tpc[t] = "save"
  /\ CanAcquire(t)
  /\ file_lock' = t
  /\ saved' = saved \cup {tinfo[t]}
  /\ tpc' = [tpc EXCEPT ![t] = "locked"]
  /\ UNCHANGED << configv, store, enginev, queue, fut, completed, ttask, tanswers, tqexc,
                  tinfo, tresult, texc, invoked, errors >>

\* What lines 100-101 append when one write flushes the buffer.
Appended(old, info) == Append(old, Chunk("record", "full", info))

\* lines 100-101: the line is appended by one write.
SaveWhole(t) ==
  /\ tpc[t] = "locked"
  /\ store' = Appended(store, tinfo[t])
  /\ tpc' = [tpc EXCEPT ![t] = "exit"]
  /\ UNCHANGED << configv, file_lock, enginev, queue, fut, completed, ttask, tanswers, tqexc,
                  tinfo, tresult, texc, invoked, saved, errors >>

\* lines 100-101: flushing takes two writes; this is the first.
SaveHead(t) ==
  /\ tpc[t] = "locked"
  /\ store' = Append(store, Chunk("record", "head", tinfo[t]))
  /\ tpc' = [tpc EXCEPT ![t] = "tail"]
  /\ UNCHANGED << configv, file_lock, enginev, queue, fut, completed, ttask, tanswers, tqexc,
                  tinfo, tresult, texc, invoked, saved, errors >>

\* The text of the file after the tail of a line is written: a head
\* directly followed by its tail reads as the whole line.
WithTail(old, info) ==
  IF old # << >> /\ old[Len(old)] = Chunk("record", "head", info)
  THEN Append(SubSeq(old, 1, Len(old) - 1), Chunk("record", "full", info))
  ELSE Append(old, Chunk("record", "tail", info))

\* lines 100-101: the second write, with the newline.
SaveTail(t) ==
  /\ tpc[t] = "tail"
  /\ store' = WithTail(store, tinfo[t])
  /\ tpc' = [tpc EXCEPT ![t] = "exit"]
  /\ UNCHANGED << configv, file_lock, enginev, queue, fut, completed, ttask, tanswers, tqexc,
                  tinfo, tresult, texc, invoked, saved, errors >>

\* Faulty variant of SaveFails: the lock is taken and given back by hand,
\* and the path of the exception skips giving it back.
SaveFailsKeepsLock(t) ==
  /\ tpc[t] = "locked"
  /\ errors' = errors \cup {[what |-> "real-time save error", server |-> tinfo[t].server]}
  /\ tpc' = [tpc EXCEPT ![t] = "ret"]
  /\ UNCHANGED << configv, store, file_lock, enginev, queue, fut, completed, ttask,
                  tanswers, tqexc, tinfo, tresult, texc, invoked, saved >>

\* Faulty variant of SaveFails: the error is printed and raised again, so
\* the except of line 229 turns the probe into a failure.
SaveFailsPropagates(t) ==
  /\ tpc[t] = "locked"
  /\ errors' = errors \cup {[what |-> "real-time save error", server |-> tinfo[t].server]}
  /\ tresult' = [tresult EXCEPT ![t] =
                   Result(FALSE, tinfo[t].server, @.rt, HandlerMsg("OSError"), "")]
  /\ tpc' = [tpc EXCEPT ![t] = "exit"]
  /\ UNCHANGED << configv, store, file_lock, enginev, queue, fut, completed, ttask,
                  tanswers, tqexc, tinfo, texc, invoked, saved >>

\* lines 102-103: open or write raises before anything reached the file;
\* the error is printed and swallowed.
SaveFails(t) ==
  /\ tpc[t] = "locked"
  /\ errors' = errors \cup {[what |-> "real-time save error", server |-> tinfo[t].server]}
  /\ tpc' = [tpc EXCEPT ![t] = "exit"]
  /\ UNCHANGED << configv, store, file_lock, enginev, queue, fut, completed, ttask,
                  tanswers, tqexc, tinfo, tresult, texc, invoked, saved >>

\* Faulty variant of SaveExit: real_time_save returns holding the lock.
SaveExitKeepsLock(t) ==
  /\ tpc[t] = "exit"
  /\ tpc' = [tpc EXCEPT ![t] = "ret"]
  /\ UNCHANGED << configv, store, file_lock, enginev, queue, fut, completed, ttask,
                  tanswers, tqexc, tinfo, tresult, texc, invoked, saved, errors >>

\* the end of the with block of line 98: the lock is released, and
\* real_time_save returns to line 209 or 215.
SaveExit(t) ==
  /\ tpc[t] = "exit"
  /\ file_lock' = 0
  /\ tpc' = [tpc EXCEPT ![t] = "ret"]
  /\ UNCHANGED << configv, store, enginev, queue, fut, completed, ttask, tanswers, tqexc,
                  tinfo, tresult, texc, invoked, saved, errors >>

\* Faulty variant of Finish: failed is shared, and the worker itself adds
\* the address of a probe that did not succeed.
FinishCountsFailure(t, f) ==
  /\ fut' = [fut EXCEPT ![ttask[t]] = f]
  /\ completed' = Append(completed, ttask[t])
  /\ failed' = IF f.exc = "none" /\ f.result.success THEN failed
               ELSE Append(failed, servers[ttask[t]])
  /\ tpc' = [tpc EXCEPT ![t] = "idle"]
  /\ ttask' = [ttask EXCEPT ![t] = 0]
  /\ tanswers' = [tanswers EXCEPT ![t] = << >>]
  /\ tinfo' = [tinfo EXCEPT ![t] = NoInfo]
  /\ tresult' = [tresult EXCEPT ![t] = NoResult]
  /\ texc' = [texc EXCEPT ![t] = "none"]
  /\ tqexc' = [tqexc EXCEPT ![t] = "none"]
  /\ UNCHANGED << configv, store, file_lock, mainpc, submitted, taken, working, summary,
                  header_calls, queue, invoked, saved, errors >>

\* The thread is done with its work item.
Finish(t, f) ==
  /\ fut' = [fut EXCEPT ![ttask[t]] = f]
  /\ completed' = Append(completed, ttask[t])
  /\ tpc' = [tpc EXCEPT ![t] = "idle"]
  /\ ttask' = [ttask EXCEPT ![t] = 0]
  /\ tanswers' = [tanswers EXCEPT ![t] = << >>]
  /\ tinfo' = [tinfo EXCEPT ![t] = NoInfo]
  /\ tresult' = [tresult EXCEPT ![t] = NoResult]
  /\ texc' = [texc EXCEPT ![t] = "none"]
  /\ tqexc' = [tqexc EXCEPT ![t] = "none"]
  /\ UNCHANGED << configv, store, file_lock, enginev, queue, invoked, saved, errors >>

\* a return statement of test_single_server: the future holds the triple.
Return(t) ==
  /\ tpc[t] = "ret"
  /\ Finish(t, [state |-> "finished", exc |-> "none", result |-> tresult[t]])

\* an exception leaves test_single_server: the future holds it.
RaiseOut(t) ==
  /\ tpc[t] = "raise"
  /\ Finish(t, [state |-> "finished", exc |-> texc[t], result |-> NoResult])

(* --------------------------- specifications ---------------------------- *)
Probe(t, behaviours) ==
  \/ Validate(t)
  \/ QueryReturn(t, behaviours)
  \/ SaveEnter(t)
  \/ SaveWhole(t)
  \/ SaveHead(t)
  \/ SaveTail(t)
  \/ SaveFails(t)
  \/ SaveExit(t)
  \/ Return(t)
  \/ RaiseOut(t)

Worker(t) == TakeTask(t) \/ Probe(t, RunBehaviours)

Engine ==
  \/ Reject
  \/ HeaderEnter
  \/ HeaderWrite
  \/ HeaderFails
  \/ HeaderExit
  \/ Submit
  \/ Collect
  \/ Summarise

Next == Engine \/ \E t \in Threads : Worker(t)

Spec == Init /\ [][Next]_vars

\* Some thread that can take a step eventually takes one: the scheduler
\* runs a runnable thread, and each query answers or times out
\* (resolver.lifetime, line 191).
FairSpec == Spec /\ WF_vars(Next)

\* One direct call of test_single_server(server, domain, timeout,
\* include_firewall) by a caller that runs it as thread 1.
ProbeInit ==
  /\ \E a \in ProbeAddrs : servers = << a >>
  /\ workers = 1
  /\ include_firewall \in BOOLEAN
  /\ store \in {<< >>, Header(include_firewall)}
  /\ file_lock = 0
  /\ mainpc = "direct"
  /\ submitted = 1
  /\ queue = << >>
  /\ fut = [i \in {1} |-> [NoFuture EXCEPT !.state = "running"]]
  /\ completed = << >>
  /\ taken = 0
  /\ working = << >>
  /\ failed = << >>
  /\ summary = NoSummary
  /\ tpc = [t \in Threads |-> IF t = 1 THEN "start" ELSE "idle"]
  /\ ttask = [t \in Threads |-> IF t = 1 THEN 1 ELSE 0]
  /\ tanswers = [t \in Threads |-> << >>]
  /\ tinfo = [t \in Threads |-> NoInfo]
  /\ tresult = [t \in Threads |-> NoResult]
  /\ texc = [t \in Threads |-> "none"]
  /\ tqexc = [t \in Threads |-> "none"]
  /\ invoked = [i \in {1} |-> 1]
  /\ saved = {}
  /\ errors = {}
  /\ header_calls = 0

ProbeNext == Probe(1, AllBehaviours)

ProbeSpec == ProbeInit /\ [][ProbeNext]_vars

\* The ranking of lines 296-300 over more addresses than its list holds:
\* the caller at the end of the loop of line 266, every future yielded.
\* The k-th address finished k-th; its probe timed out (outcome 0) or was
\* accepted with a sentinel answer after that many half milliseconds.
RankAddrs ==
  << "10.0.0.1", "10.0.0.2", "10.0.0.3", "10.0.0.4", "10.0.0.5",
     "10.0.0.6", "10.0.0.7", "10.0.0.8", "10.0.0.9" >>

RankResult(server, outcome) ==
  IF outcome = 0
  THEN Result(FALSE, server, 1, HandlerMsg("Timeout"), "")
  ELSE FirewallBranch(server, "10.10.34.34", outcome, TRUE).result

RECURSIVE CollectAll(_, _, _, _)
CollectAll(outcomes, k, w, fl) ==
  IF k > Len(outcomes) THEN [working |-> w, failed |-> fl]
  ELSE LET c == Collected([state |-> "finished", exc |-> "none",
                           result |-> RankResult(RankAddrs[k], outcomes[k])],
                          RankAddrs[k], w, fl)
       IN CollectAll(outcomes, k + 1, c.working, c.failed)

RankInit ==
  \E outcomes \in SeqsUpTo(0..MaxLatency, MaxRanked) :
    LET n == Len(outcomes)
        accepted == {k \in 1..n : outcomes[k] # 0}
        info(k) == FirewallBranch(RankAddrs[k], "10.10.34.34", outcomes[k], TRUE).info
        lists == CollectAll(outcomes, 1, << >>, << >>)
    IN /\ servers = [k \in 1..n |-> RankAddrs[k]]
       /\ workers = 1
       /\ include_firewall = TRUE
       /\ store = Header(TRUE)
                    \o [j \in 1..Len(lists.working) |->
                         Chunk("record", "full",
                               info(CHOOSE k \in accepted :
                                      RankAddrs[k] = lists.working[j][1]))]
       /\ file_lock = 0
       /\ mainpc = "collect"
       /\ submitted = n
       /\ queue = << >>
       /\ fut = [k \in 1..n |-> [state |-> "finished", exc |-> "none",
                                  result |-> RankResult(RankAddrs[k], outcomes[k])]]
       /\ completed = [k \in 1..n |-> k]
       /\ taken = n
       /\ working = lists.working
       /\ failed = lists.failed
       /\ summary = NoSummary
       /\ IdleThreads
       /\ invoked = [k \in 1..n |-> 1]
       /\ saved = {info(k) : k \in accepted}
       /\ errors = {}
       /\ header_calls = 1

RankNext == Summarise

RankSpec == RankInit /\ [][RankNext]_vars

(* ------------------------ vocabulary of the claims --------------------- *)
Count(seq, x) == Cardinality({k \in 1..Len(seq) : seq[k] = x})

HasSentinel(answers) == Range(answers) \cap firewall_ips # {}

WorkingServers == [k \in 1..Len(working) |-> working[k][1]]

Finished(i) == fut[i].state = "finished"

\* the futures whose task raised
Faulted == {i \in Indices : Finished(i) /\ fut[i].exc # "none"}

\* the futures whose outcome is FirewallBlocked
FwOutcomes ==
  {i \in Indices : Finished(i) /\ fut[i].exc = "none"
                     /\ fut[i].result.msg = "firewall blocked"}

\* the line '<address> (firewall:<sentinel>) (<latency>ms)' of an outcome
FwLineOf(r) == [server |-> r.server, fw |-> TRUE, tag |-> r.detail, ms |-> Fmt0f(r.rt)]

\* the line '<address> (<resolvedAddress>) (<latency>ms)'
OkLine(server, resolved, rt) ==
  [server |-> server, fw |-> FALSE, tag |-> resolved, ms |-> Fmt0f(rt)]

LinesEqualTo(info) ==
  {k \in 1..Len(Lines(store)) : IsRecordLine(Lines(store)[k], info)}

MentionsServer(server) ==
  \E k \in 1..Len(store) : store[k].kind = "record" /\ store[k].info.server = server

SaveErrorOf(server) == [what |-> "real-time save error", server |-> server]
HeaderError == [what |-> "header write error", server |-> ""]
NoSaveError == \A e \in errors : e.what # "real-time save error"

\* the lines of the store that hold any part of a record
RecordLines ==
  SelectSeq(Lines(store), LAMBDA l : \E k \in 1..Len(l) : l[k].kind = "record")

InFlight == {t \in Threads : tpc[t] = "query"}

(* -------------------------------- C1 ----------------------------------- *)
\* C1: a probe of a well-formed address whose answer holds no sentinel
\* returns Success with the first returned address, counts as working, and
\* appends exactly one line '<address> (<resolvedAddress>) (<latency>ms)'.
\* Stated at the return of test_single_server (ProbeSpec); the code
\* violates it.
C1_GenuineAnswerIsSuccess ==
  \A t \in Threads :
    (/\ tpc[t] \in {"ret", "raise"}
     /\ tanswers[t] # << >>
     /\ ~HasSentinel(tanswers[t])
     /\ NoSaveError)
    => /\ texc[t] = "none"
       /\ tresult[t].success
       /\ tresult[t].msg = "ok"
       /\ tresult[t].detail = tanswers[t][1]
       /\ Collected([state |-> "finished", exc |-> "none", result |-> tresult[t]],
                    servers[ttask[t]], << >>, << >>).working
            = << << servers[ttask[t]], tresult[t].rt >> >>
       /\ Cardinality(LinesEqualTo(OkLine(servers[ttask[t]], tanswers[t][1],
                                          tresult[t].rt))) = 1

(* -------------------------------- C2 ----------------------------------- *)
\* C2: a probe whose answer holds a sentinel at any position ends as
\* FirewallBlocked, never Success, whatever include_firewall is: from the
\* moment the answer is in, the triple the thread will return is the
\* firewall one, naming a sentinel, and no exception is under way.
C2_SentinelIsFirewallBlocked ==
  \A t \in Threads :
    (tanswers[t] # << >> /\ HasSentinel(tanswers[t]))
    => /\ texc[t] = "none"
       /\ tpc[t] # "raise"
       /\ tresult[t].msg = "firewall blocked"
       /\ tresult[t].msg # "ok"
       /\ tresult[t].detail \in firewall_ips
       /\ tresult[t].success = include_firewall

\* a sentinel in second place, behind a genuine address, filtered
C2_Witness ==
  /\ tpc[1] = "ret"
  /\ Len(tanswers[1]) >= 2
  /\ tanswers[1][1] \notin firewall_ips
  /\ tanswers[1][2] \in firewall_ips
  /\ ~include_firewall

(* -------------------------------- C3 ----------------------------------- *)
\* C3 as stated: at the end of a run without include_firewall no
\* FirewallBlocked outcome has a line in the store or an entry in working;
\* with include_firewall every FirewallBlocked outcome has its line
\* (tagged firewall:<sentinel>) in the store and its entry in working.
C3_AsStated ==
  mainpc = "done" =>
    \A i \in FwOutcomes :
      IF include_firewall
      THEN /\ LinesEqualTo(FwLineOf(fut[i].result)) # {}
           /\ << servers[i], fut[i].result.rt >> \in Range(working)
      ELSE /\ ~MentionsServer(servers[i])
           /\ servers[i] \notin Range(WorkingServers)

\* C3 amended: as stated, except that with include_firewall the line is in
\* the store unless writing it failed, which "real-time save error"
\* reports; the outcome is in working either way.
C3_FirewallModeDecides ==
  mainpc = "done" =>
    \A i \in FwOutcomes :
      IF include_firewall
      THEN /\ \/ LinesEqualTo(FwLineOf(fut[i].result)) # {}
              \/ SaveErrorOf(servers[i]) \in errors
           /\ << servers[i], fut[i].result.rt >> \in Range(working)
      ELSE /\ ~MentionsServer(servers[i])
           /\ servers[i] \notin Range(WorkingServers)

\* a finished run in which one accepted firewall outcome lost its line to
\* a write failure and another has it in the store
C3_Witness ==
  /\ mainpc = "done"
  /\ include_firewall
  /\ \E i, j \in FwOutcomes :
       /\ SaveErrorOf(servers[i]) \in errors
       /\ LinesEqualTo(FwLineOf(fut[j].result)) # {}

(* -------------------------------- C4 ----------------------------------- *)
\* C4: the prober is entered at most once per address, and when the engine
\* returns it was entered exactly once per address, every address is
\* exactly once in working or failed taken together, and
\* working + failed = tested.
C4_OneProbeOneOutcome ==
  /\ \A i \in Indices : invoked[i] <= 1
  /\ mainpc = "done" =>
       /\ \A i \in Indices :
            /\ invoked[i] = 1
            /\ Count(WorkingServers, servers[i]) + Count(failed, servers[i]) = 1
       /\ Len(working) + Len(failed) = Len(servers)
       /\ summary.working + summary.failed = summary.tested
       /\ summary.tested = Len(servers)

\* more addresses than workers, some working and some failed
C4_Witness ==
  /\ mainpc = "done"
  /\ Len(servers) > workers
  /\ working # << >>
  /\ failed # << >>

(* -------------------------------- C5 ----------------------------------- *)
\* C5: when a probe task raises, the exception does not leave the engine,
\* the run is never stuck before its end, and at the end every task has
\* run, the address of the task that raised is exactly once in failed and
\* not in working, and every other outcome was collected as returned.
C5_FaultIsContained ==
  /\ mainpc # "crashed"
  /\ (Faulted # {} /\ mainpc # "done") => ENABLED Next
  /\ (Faulted # {} /\ mainpc = "done") =>
       \A i \in Indices :
         /\ Finished(i)
         /\ invoked[i] = 1
         /\ i \in Faulted =>
              /\ Count(failed, servers[i]) = 1
              /\ Count(WorkingServers, servers[i]) = 0
         /\ (i \notin Faulted /\ fut[i].result.success) =>
              /\ Count(working, << servers[i], fut[i].result.rt >>) = 1
              /\ Count(failed, servers[i]) = 0
         /\ (i \notin Faulted /\ ~fut[i].result.success) =>
              /\ Count(failed, servers[i]) = 1
              /\ Count(WorkingServers, servers[i]) = 0

\* the first task to finish raised, with another still queued behind one
\* worker; the other one ran and is working
C5_Witness ==
  /\ mainpc = "done"
  /\ workers = 1
  /\ Len(servers) >= 2
  /\ completed[1] \in Faulted
  /\ working # << >>

(* -------------------------------- C6 ----------------------------------- *)
\* C6: appends are atomic.  A thread between the two writes of its line
\* finds its own head at the end of the file, and at the end of a run
\* without write failure the record lines of the store are exactly the
\* lines real_time_save was called with, each one once and whole.
C6_AppendsAreAtomic ==
  /\ \A t \in Threads :
       tpc[t] = "tail" =>
         store # << >> /\ store[Len(store)] = Chunk("record", "head", tinfo[t])
  /\ (mainpc = "done" /\ NoSaveError) =>
       /\ Len(RecordLines) = Cardinality(saved)
       /\ \A info \in saved : Cardinality(LinesEqualTo(info)) = 1
       /\ \A k \in 1..Len(RecordLines) :
            \E info \in saved : IsRecordLine(RecordLines[k], info)

\* two workers are in real_time_save at once: one between its two writes,
\* the other waiting for the lock
C6_Witness ==
  /\ workers >= 2
  /\ tpc[1] = "tail"
  /\ tpc[2] = "save"
  /\ NoSaveError

(* -------------------------------- C7 ----------------------------------- *)
NothingDispatched ==
  /\ submitted = 0
  /\ queue = << >>
  /\ \A i \in Indices : invoked[i] = 0 /\ fut[i].state = "none"

HeaderThenRecords ==
  /\ Len(store) >= HeaderLines
  /\ SubSeq(store, 1, HeaderLines) = Header(include_firewall)
  /\ \A k \in (HeaderLines + 1)..Len(store) :
       store[k].kind = "record" /\ store[k].info \in saved

HeaderPhaseOver == mainpc \in {"submit", "collect", "done"}

\* C7 as stated: write_header is entered once, nothing is dispatched
\* before it is over, and from then on the store is the four header lines
\* followed only by records of this run.
C7_AsStated ==
  /\ header_calls <= 1
  /\ ~HeaderPhaseOver => NothingDispatched
  /\ HeaderPhaseOver => header_calls = 1 /\ HeaderThenRecords

\* C7 amended: as stated, except that the store has that shape unless
\* writing the header failed, which "header write error" reports.
C7_HeaderFirst ==
  /\ header_calls <= 1
  /\ ~HeaderPhaseOver => NothingDispatched
  /\ HeaderPhaseOver => header_calls = 1
  /\ (HeaderPhaseOver /\ HeaderError \notin errors) => HeaderThenRecords

\* the run is over, the stale line is gone and a record follows the header
C7_Witness ==
  /\ mainpc = "done"
  /\ HeaderError \notin errors
  /\ Len(store) > HeaderLines

(* -------------------------------- C8 ----------------------------------- *)
\* C8: at most workers probes are inside their network query at a time.
C8_QueriesBounded == Cardinality(InFlight) <= workers

\* more addresses than workers: the pool is full and an address waits
C8_Witness ==
  /\ Len(servers) > workers
  /\ Cardinality(InFlight) = workers
  /\ queue # << >>

(* -------------------------------- C9 ----------------------------------- *)
\* C9: under fair scheduling a run over a non-empty list reaches its
\* summary, and the summary is there only when every probe has finished
\* and was collected.
C9_RunEndsWithSummary ==
  /\ (mainpc = "start" /\ servers # << >>)
       ~> (mainpc = "done" /\ summary.tested = Len(servers))
  /\ [](summary # NoSummary =>
          /\ mainpc = "done"
          /\ \A i \in Indices : Finished(i)
          /\ \A t \in Threads : tpc[t] = "idle"
          /\ taken = Len(servers))

\* a finished run in which nothing worked and one task raised
C9_Witness ==
  /\ mainpc = "done"
  /\ summary.tested >= 2
  /\ summary.working = 0
  /\ Faulted # {}

(* -------------------------------- C10 ---------------------------------- *)
\* C10: test_single_server raises nothing to its caller, for any address
\* string and resolver behaviour.  The code violates it.
C10_ProberNeverRaises ==
  /\ \A t \in Threads : tpc[t] # "raise"
  /\ \A i \in Indices : Finished(i) => fut[i].exc = "none"

(* -------------------------------- C11 ---------------------------------- *)
\* the address strings of the model that are four decimal octets 0-255
\* joined by dots (a leading zero leaves an octet decimal)
DottedQuads == {"1.1.1.1", "8.8.8.8", "010.1.1.1", "009.1.1.1"}

\* C11: a probe of an address string that is not a well-formed dotted quad
\* returns the InvalidAddress triple with no latency, sends no query, and
\* is counted as failed.  The code violates it.
C11_MalformedIsInvalidAddress ==
  \A t \in Threads :
    (tpc[t] # "idle" /\ servers[ttask[t]] \notin DottedQuads)
    => /\ tpc[t] \in {"start", "ret"}
       /\ texc[t] = "none"
       /\ tanswers[t] = << >>
       /\ tqexc[t] = "none"
       /\ tpc[t] = "ret" =>
            /\ tresult[t] = Result(FALSE, servers[ttask[t]], NoneRT, "invalid ip", "")
            /\ Collected([state |-> "finished", exc |-> "none", result |-> tresult[t]],
                         servers[ttask[t]], << >>, << >>).failed
                 = << servers[ttask[t]] >>

(* -------------------------------- C12 ---------------------------------- *)
\* the lines of the store that hold a record, or part of one, of a server
RecordsOf(server) ==
  {k \in 1..Len(Lines(store)) :
     \E j \in 1..Len(Lines(store)[k]) :
       /\ Lines(store)[k][j].kind = "record"
       /\ Lines(store)[k][j].info.server = server}

RecordedServers == {servers[i] : i \in {j \in Indices : RecordsOf(servers[j]) # {}}}

\* C12: no address ever has two records in the store and no failed address
\* has one; at the end of a run in which no write to the store failed, the
\* addresses with a record are those of the working list, each with
\* exactly one whole record and one entry in the list.
C12_RecordsAreTheWorkingList ==
  /\ \A i \in Indices : Cardinality(RecordsOf(servers[i])) <= 1
  /\ \A k \in 1..Len(failed) : RecordsOf(failed[k]) = {}
  /\ (mainpc = "done" /\ errors = {}) =>
       /\ RecordedServers = Range(WorkingServers)
       /\ \A k \in 1..Len(working) :
            /\ Count(WorkingServers, working[k][1]) = 1
            /\ Cardinality(RecordsOf(working[k][1])) = 1
            /\ \E i \in FwOutcomes :
                 /\ servers[i] = working[k][1]
                 /\ Cardinality(LinesEqualTo(FwLineOf(fut[i].result))) = 1

\* a finished run without write failures: one address recorded and
\* working, another failed
C12_Witness ==
  /\ mainpc = "done"
  /\ errors = {}
  /\ Len(working) = 1
  /\ Len(failed) = 1
  /\ RecordsOf(working[1][1]) # {}

(* -------------------------------- C13 ---------------------------------- *)
\* C13: the top-fastest list of the summary holds working entries only,
\* each once, min(5, number of working entries) of them, in order of
\* non-decreasing latency, and no working entry left out is faster than
\* one that is in, whatever order the probes finished in.
C13_TopIsFastest ==
  mainpc = "done" =>
    LET top == summary.top
    IN /\ Len(top) = (IF Len(working) < 5 THEN Len(working) ELSE 5)
       /\ \A k \in 1..Len(top) :
            /\ top[k] \in Range(working)
            /\ top[k][1] \notin Range(failed)
       /\ \A j, k \in 1..Len(top) : j # k => top[j] # top[k]
       /\ \A k \in 1..(Len(top) - 1) : top[k][2] <= top[k + 1][2]
       /\ \A e \in Range(working) \ Range(top) :
            \A k \in 1..Len(top) : top[k][2] <= e[2]

\* more working entries than the list holds, a slow one finished first and
\* is left out, and a failed address is among the tested
C13_Witness ==
  /\ mainpc = "done"
  /\ Len(working) > 5
  /\ failed # << >>
  /\ working[1] \notin Range(summary.top)
  /\ \E k \in 1..Len(summary.top) : summary.top[k][2] < working[1][2]

(* -------------------------------- C14 ---------------------------------- *)
\* the position of an address in the list load_servers returned
PositionOf(server) == CHOOSE i \in Indices : servers[i] = server

\* C14: working entries of equal latency stand in the top-fastest list in
\* the order of their addresses in the original list, whatever order the
\* probes finished in.  The code violates it.
C14_TiesByAddressOrder ==
  mainpc = "done" =>
    \A j, k \in 1..Len(summary.top) :
      (j < k /\ summary.top[j][2] = summary.top[k][2])
      => PositionOf(summary.top[j][1]) < PositionOf(summary.top[k][1])

(* -------------------------------- C15 ---------------------------------- *)
\* the addresses whose record write failed
SaveFailed == {i \in Indices : SaveErrorOf(servers[i]) \in errors}

\* C15: a failed record write is reported and swallowed.  The probe it
\* happened in still returns its accepted outcome, the lock is not left
\* held, the run is never stuck before its end, and at the end every probe
\* has finished, the address is in working, every line whose write did not
\* fail is in the store, and the summary counts every address.
C15_SaveFailureIsSwallowed ==
  SaveFailed # {} =>
    /\ mainpc # "crashed"
    /\ \A i \in SaveFailed :
         /\ \A t \in Threads :
              ttask[t] = i =>
                /\ tpc[t] \in {"exit", "ret"}
                /\ texc[t] = "none"
                /\ tresult[t].success
                /\ tresult[t].rt \in Latencies
         /\ Finished(i) => fut[i].exc = "none" /\ fut[i].result.success
    /\ \A t \in Threads : file_lock = t => tpc[t] \in {"locked", "tail", "exit"}
    /\ mainpc # "done" => ENABLED Next
    /\ mainpc = "done" =>
         /\ \A i \in Indices : Finished(i)
         /\ \A i \in SaveFailed :
              /\ Count(working, << servers[i], fut[i].result.rt >>) = 1
              /\ RecordsOf(servers[i]) = {}
         /\ \A info \in saved :
              \/ SaveErrorOf(info.server) \in errors
              \/ Cardinality(LinesEqualTo(info)) = 1
         /\ summary.tested = Len(servers)
         /\ summary.working + summary.failed = Len(servers)

\* one worker: the write of the first address failed, the record of the
\* second was appended after it
C15_Witness ==
  /\ mainpc = "done"
  /\ workers = 1
  /\ Len(servers) >= 2
  /\ SaveFailed = {1}
  /\ RecordsOf(servers[2]) # {}

(* -------------------------------- C16 ---------------------------------- *)
\* real_time_save was called with a line of this server and has returned
SaveReturned(server) ==
  /\ \E info \in saved : info.server = server
  /\ \A t \in Threads :
       tinfo[t].server = server => tpc[t] \notin {"save", "locked", "tail", "exit"}

\* C16 as stated: in every state each address of the working list has its
\* record in the store, its append having been performed before.
C16_AsStated ==
  \A k \in 1..Len(working) :
    /\ SaveReturned(working[k][1])
    /\ Cardinality(RecordsOf(working[k][1])) = 1

\* C16: records are streamed.  In every state real_time_save has been
\* called and has returned for each address of the working list, and the
\* record is in the store, whole, unless its write failed and was reported.
C16_StreamedBeforeCollected ==
  \A k \in 1..Len(working) :
    /\ SaveReturned(working[k][1])
    /\ \/ SaveErrorOf(working[k][1]) \in errors /\ RecordsOf(working[k][1]) = {}
       \/ \E info \in saved :
            /\ info.server = working[k][1]
            /\ Cardinality(LinesEqualTo(info)) = 1
            /\ Cardinality(RecordsOf(working[k][1])) = 1

\* a record is in the store and its address in the working list while
\* another probe waits for its answer
C16_Witness ==
  /\ working # << >>
  /\ RecordsOf(working[1][1]) # {}
  /\ InFlight # {}
  /\ mainpc = "collect"

(* -------------------------------- C17 ---------------------------------- *)
\* the threads inside a with file_lock block (lines 83-92, 98-103)
InSection ==
  {t \in Threads : tpc[t] \in {"locked", "tail", "exit"}}
    \cup (IF mainpc \in {"hdr_locked", "hdr_exit"} THEN {MainThread} ELSE {})

\* C17: at most one thread is inside a critical section of the store, the
\* lock is held by that thread and by nobody once it has left (also after
\* a failed open or write), and under fair scheduling no worker waits for
\* file_lock for ever: time and again no worker is waiting.
C17_LockIsExclusiveAndReleased ==
  /\ [](/\ Cardinality(InSection) <= 1
        /\ \A who \in Threads \cup {MainThread} : file_lock = who <=> who \in InSection
        /\ InSection = {} => file_lock = 0)
  /\ []<>(\A t \in Threads : tpc[t] # "save")

\* a worker waits for the lock while the write of the holder has just
\* failed
C17_Witness ==
  /\ tpc[1] = "exit"
  /\ file_lock = 1
  /\ SaveErrorOf(tinfo[1].server) \in errors
  /\ tpc[2] = "save"

(* -------------------------------- C18 ---------------------------------- *)
\* the failure outcome the claim gives each resolver failure
FailureOutcome(exc) ==
  CASE exc = "Timeout" -> "timeout"
    [] exc = "NXDOMAIN" -> "nxdomain"
    [] exc = "NoAnswer" -> "no answer"
    [] exc = "NoNameservers" -> "dns error"
    [] OTHER -> "error"

\* C18: for a well-formed address, a query that raises makes
\* test_single_server return the failure triple of that failure (timeout,
\* nxdomain, no answer, dns error for another DNS exception, error for
\* anything else) with the elapsed time; the address is counted as failed
\* and real_time_save is not called.
C18_FailureIsMapped ==
  \A t \in Threads :
    (tqexc[t] # "none" /\ servers[ttask[t]] \in DottedQuads)
    => /\ tpc[t] = "ret"
       /\ texc[t] = "none"
       /\ tresult[t].rt \in Latencies
       /\ tresult[t] = Result(FALSE, servers[ttask[t]], tresult[t].rt,
                              FailureOutcome(tqexc[t]), "")
       /\ tinfo[t] = NoInfo
       /\ saved = {}
       /\ RecordsOf(servers[ttask[t]]) = {}
       /\ LET c == Collected([state |-> "finished", exc |-> "none",
                              result |-> tresult[t]],
                             servers[ttask[t]], << >>, << >>)
          IN c.failed = << servers[ttask[t]] >> /\ c.working = << >>

\* a DNS exception that has no clause of its own
C18_Witness ==
  /\ tpc[1] = "ret"
  /\ tqexc[1] = "NoNameservers"
  /\ servers[1] = "8.8.8.8"
  /\ tresult[1].msg = "dns error"

(* -------------------------------- C19 ---------------------------------- *)
\* C19: with an empty address list the run is rejected before anything is
\* dispatched: write_header is not called, the store stays as the earlier
\* run left it, no probe is submitted or run, nothing is reported, and the
\* result returned is the empty list.
C19_EmptyListIsRejected ==
  servers = << >> =>
    /\ mainpc \in {"start", "rejected"}
    /\ header_calls = 0
    /\ file_lock = 0
    /\ store = << StaleLine >>
    /\ errors = {}
    /\ submitted = 0
    /\ queue = << >>
    /\ completed = << >>
    /\ \A t \in Threads : tpc[t] = "idle"
    /\ saved = {}
    /\ working = << >>
    /\ failed = << >>
    /\ summary = NoSummary

\* the rejected run, with what the earlier run left still in the store
C19_Witness ==
  /\ servers = << >>
  /\ mainpc = "rejected"
  /\ store = << StaleLine >>

(* -------------------------------- C20 ---------------------------------- *)
\* the locals of one worker thread
LocalsOf(t) == << tpc[t], ttask[t], tanswers[t], tqexc[t], tinfo[t], tresult[t], texc[t] >>

\* the futures whose probe returned a success triple
Succeeded == {i \in Indices : Finished(i) /\ fut[i].exc = "none" /\ fut[i].result.success}

\* C20: a step that changes working or failed is a step of the caller in
\* its loop over the finished futures and changes no worker's locals, no
\* future and not the store; a step changes the locals of at most one
\* worker; and the counts at the end are those of the outcomes the futures
\* hold, whatever order the workers ran and finished in.
C20_OnlyCollectorCounts ==
  /\ [][/\ (working' # working \/ failed' # failed) =>
             /\ mainpc = "collect"
             /\ taken' = taken + 1
             /\ threadv' = threadv
             /\ fut' = fut
             /\ completed' = completed
             /\ store' = store
             /\ Len(working') + Len(failed') = Len(working) + Len(failed) + 1
        /\ \A t, u \in Threads :
             (t # u /\ LocalsOf(t)' # LocalsOf(t)) => LocalsOf(u)' = LocalsOf(u)
        /\ (\E t \in Threads : LocalsOf(t)' # LocalsOf(t)) =>
             (mainpc' = mainpc /\ taken' = taken /\ summary' = summary)]_vars
  /\ [](mainpc = "done" =>
          /\ Len(working) = Cardinality(Succeeded)
          /\ Len(failed) = Len(servers) - Cardinality(Succeeded)
          /\ summary.working = Cardinality(Succeeded)
          /\ summary.failed = Len(servers) - Cardinality(Succeeded)
          /\ \A i \in Succeeded : << servers[i], fut[i].result.rt >> \in Range(working)
          /\ \A i \in Indices \ Succeeded : servers[i] \in Range(failed))

\* the probes finished in the reverse of the order they were submitted
\* in, one accepted and one not
C20_Witness ==
  /\ mainpc = "done"
  /\ completed = << 2, 1 >>
  /\ Len(working) = 1
  /\ Len(failed) = 1
====
